---- MODULE Spec2Model ----
(***************************************************************************)
(* OAuth2.0 token acquisition of the ampyr / spotipy client library:       *)
(* scope utilities, token validator, token request transport, cache        *)
(* managers, local redirect listener and the flow orchestrators.           *)
(*                                                                         *)
(* Python strings that the code splits are modelled as sequences of        *)
(* one-character strings, so that re.split and str.split are computed.     *)
(* A raised exception is modelled by the name of its class.                *)
(***************************************************************************)
EXTENDS Integers, Sequences, FiniteSets, TLC

\* ------------------------------------------------------------------------
\* Bounds of the model.
\* ------------------------------------------------------------------------
MaxTicks == 1
MaxCalls == 2
MaxIssued == 2
MaxScopeLen == 3
MaxHandlers == 2

\* ------------------------------------------------------------------------
\* Program constants.
\* ------------------------------------------------------------------------
EXPIRATION_THRESHOLD == 60
DEFAULT_EXPIRES_IN == 3600

\* ------------------------------------------------------------------------
\* Python values.
\* ------------------------------------------------------------------------
\* The value None where a string is expected (strings are sequences).
None == <<"<None>">>
\* The value None where a mapping is expected (mappings are functions whose
\* domain is the set of keys they hold).
NoData == [none |-> TRUE]
\* The empty mapping {}.
EmptyDict == << >>

\* Characters matched by \w in the modelled alphabet.
WordChars == {"r", "w", "N", "o", "n", "e"}
\* Characters matched by [, ].
DelimChars == {",", " "}

\* The scope strings used as inputs.
ScopeEmpty == << >>
ScopeRead == <<"r">>
ScopeWrite == <<"w">>
ScopeReadWrite == <<"r", " ", "w">>
ScopeReadCommaWrite == <<"r", ",", "w">>
\* str(None)
StrNone == <<"N", "o", "n", "e">>

\* Python truthiness of a string or None.
Truthy(v) == v # None /\ v # << >>
\* str(v) of a string or None.
PyStr(v) == IF v = None THEN StrNone ELSE v

\* ------------------------------------------------------------------------
\* Scope utility.
\* ------------------------------------------------------------------------
\* End (exclusive) of the run of word characters that starts at i.
RECURSIVE RunEnd(_, _)
RunEnd(s, i) ==
    IF i > Len(s) \/ s[i] \notin WordChars THEN i ELSE RunEnd(s, i + 1)

\* EXPECTED_SCOPE_FORMAT.split(s): the pieces of s left between the matches
\* of \w+[, ]{1}; i is the scan position, st the start of the current piece.
RECURSIVE SplitFrom(_, _, _, _)
SplitFrom(s, i, st, acc) ==
    IF i > Len(s) THEN Append(acc, SubSeq(s, st, Len(s)))
    ELSE IF s[i] \in WordChars
         THEN LET j == RunEnd(s, i) IN
              IF j <= Len(s) /\ s[j] \in DelimChars
              THEN SplitFrom(s, j + 1, j + 1, Append(acc, SubSeq(s, st, i - 1)))
              ELSE SplitFrom(s, j, st, acc)
         ELSE SplitFrom(s, i + 1, st, acc)

ScopeSplit(s) == SplitFrom(s, 1, 1, << >>)

\* join_char.join(pieces)
RECURSIVE JoinWith(_, _)
JoinWith(pieces, ch) ==
    IF pieces = << >> THEN << >>
    ELSE IF Len(pieces) = 1 THEN pieces[1]
    ELSE pieces[1] \o <<ch>> \o JoinWith(Tail(pieces), ch)

\* normalize_scope for a str argument.
normalize_scope(scope) == JoinWith(ScopeSplit(scope), " ")

SeqToSet(q) == {q[i] : i \in 1..Len(q)}

\* Mutant of scope_is_subset: containment of first in second only.
scope_is_subset_one_way(first, second) ==
    IF first = None \/ second = None THEN first = second
    ELSE SeqToSet(ScopeSplit(first)) \subseteq SeqToSet(ScopeSplit(second))
\* ampyr scope_is_subset: containment in either direction.
scope_is_subset(first, second) ==
    IF first = None \/ second = None THEN first = second
    ELSE LET first_set == SeqToSet(ScopeSplit(first))
             second_set == SeqToSet(ScopeSplit(second))
         IN first_set \subseteq second_set \/ second_set \subseteq first_set

\* spotipy scope_is_subset: subset within scope.
spotipy_scope_is_subset(subset, scope) ==
    IF subset = None \/ scope = None THEN subset = scope
    ELSE SeqToSet(ScopeSplit(subset)) \subseteq SeqToSet(ScopeSplit(scope))

\* ------------------------------------------------------------------------
\* Token validator.
\* ------------------------------------------------------------------------
\* Mutant of isexpired: the threshold itself counts as expired.
isexpired_inclusive(data, t) == (data["expires_at"] - t) <= EXPIRATION_THRESHOLD
\* ampyr isexpired / spotipy token_expired, for data holding expires_at.
isexpired(data, t) == (data["expires_at"] - t) < EXPIRATION_THRESHOLD

\* Mutant of validate: the expiry is looked at before the scope.
validate_ExpiryFirst(data, scope, t) ==
    IF data = NoData THEN "INVALID"
    ELSE IF "scope" \notin DOMAIN data THEN "INVALID"
    ELSE IF "expires_at" \in DOMAIN data /\ isexpired(data, t) THEN "EXPIRED"
    ELSE LET data_scope == PyStr(data["scope"])
             sc == IF Truthy(scope) THEN scope ELSE data_scope
         IN IF ~scope_is_subset(sc, data_scope) THEN "INVALID"
            ELSE IF "expires_at" \notin DOMAIN data THEN "KeyError"
            ELSE "ISVALID"
\* ampyr validate. The result is a TokenState, or the name of the exception
\* raised by the lookup data["expires_at"] in isexpired.
validate(data, scope, t) ==
    IF data = NoData THEN "INVALID"
    ELSE IF "scope" \notin DOMAIN data THEN "INVALID"
    ELSE LET data_scope == PyStr(data["scope"])
             sc == IF Truthy(scope) THEN scope ELSE data_scope
         IN IF ~scope_is_subset(sc, data_scope) THEN "INVALID"
            ELSE IF "expires_at" \notin DOMAIN data THEN "KeyError"
            ELSE IF isexpired(data, t) THEN "EXPIRED"
            ELSE "ISVALID"

\* spotipy validate_token; VALID is written ISVALID and REFRESH is written
\* EXPIRED, so that both validators range over the same three states.
validate_token(token_data, auth_scope, t) ==
    IF token_data = NoData THEN "INVALID"
    ELSE IF "scope" \notin DOMAIN token_data THEN "INVALID"
    ELSE LET scope == token_data["scope"]
             asc == IF Truthy(auth_scope) THEN auth_scope ELSE scope
         IN IF ~spotipy_scope_is_subset(scope, asc) THEN "INVALID"
            ELSE IF "expires_at" \notin DOMAIN token_data THEN "KeyError"
            ELSE IF isexpired(token_data, t) THEN "EXPIRED"
            ELSE "ISVALID"

TokenStates == {"ISVALID", "EXPIRED", "INVALID"}

\* ------------------------------------------------------------------------
\* Cache storage.  One record holds what the backends keep:
\*   tab     the key -> value table of the ampyr MemoryCacheManager
\*           (class-level stored_data) and of the shelf database,
\*   file    the text of the cache file, NoFile when it does not exist,
\*   written whether the shelf database has been created on disc,
\*   mem     _token_data of the spotipy MemoryCacheHandler in use.
\* A cache key is the sequence of its ":"-separated segments, and the text
\* "key:dump" of the ampyr cache file is the sequence of its segments up to
\* the dump, followed by the dump.
\* ------------------------------------------------------------------------
NoFile == [nofile |-> TRUE]
EmptyStore == [tab |-> EmptyDict, file |-> NoFile, written |-> FALSE, mem |-> NoData]

\* An exception raised in place of a result.
Raise(name) == [raise |-> name]
IsRaise(v) == DOMAIN v = {"raise"}

\* json.dumps / json.loads of a mapping with string keys: the text is a
\* value of its own, distinct from the mapping it encodes.
json_dumps(data) == [json |-> data]
IsJson(text) == DOMAIN text = {"json"}
json_loads(text) == IF IsJson(text) THEN text.json ELSE Raise("JSONDecodeError")

\* tools.build_keypair with join_char ":".
build_keypair(key, dump) == key \o <<dump>>
\* tools.split_keypair with join_char ":": split at the first ":" only.
split_keypair(keypair) == <<SubSeq(keypair, 1, 1), Tail(keypair)>>

\* Which files the dbm module behind shelve creates for a database at path:
\*   "single"  the file path itself (dbm.gnu),
\*   "db"      path.db (dbm.ndbm),
\*   "dumb"    path.dat, path.dir and path.bak (dbm.dumb).
DbmLayouts == {"single", "db", "dumb"}

\* ampyr NullCacheManager.
NullFind(st, key) == NoData
NullSave(st, key, data) == st

\* Mutant of MemorySave: the first record stored under a key is kept
\* (setdefault).
MemorySave_KeepFirst(st, key, data) ==
    IF key \in DOMAIN st.tab THEN st ELSE [st EXCEPT !.tab = (key :> data) @@ st.tab]
\* Mutant of MemorySave: the record is merged into the one already stored
\* (update).
MemorySave_Merge(st, key, data) ==
    [st EXCEPT !.tab = (key :> (IF key \in DOMAIN st.tab THEN data @@ st.tab[key]
                                ELSE data)) @@ st.tab]
\* ampyr MemoryCacheManager: stored_data.get(key, None).
MemoryFind(st, key) == IF key \in DOMAIN st.tab THEN st.tab[key] ELSE NoData
MemorySave(st, key, data) == [st EXCEPT !.tab = (key :> data) @@ st.tab]

\* ampyr FileCacheManager (serializer json).
FileFind(st, key) ==
    IF st.file = NoFile THEN NoData
    ELSE LET pair == split_keypair(st.file)
             fkey == pair[1]
             found == pair[2]
         IN IF fkey # key THEN NoData
            ELSE IF Len(found) = 1 THEN json_loads(found[1])
            ELSE Raise("JSONDecodeError")
FileSave(st, key, data) ==
    [st EXCEPT !.file = build_keypair(key, json_dumps(data))]

\* ampyr ShelfCacheManager.fileexists
ShelfFileExists(st, layout) == st.written /\ layout \in {"db", "dumb"}
\* ampyr ShelfCacheManager (serializer NullLoader).
ShelfFind(st, key, layout) ==
    IF ~ShelfFileExists(st, layout) THEN NoData
    ELSE IF key \notin DOMAIN st.tab THEN NoData
    ELSE IF st.tab[key] = EmptyDict THEN NoData
    ELSE st.tab[key]
ShelfSave(st, key, data) ==
    [st EXCEPT !.tab = (key :> data) @@ st.tab, !.written = TRUE]

\* spotipy MemoryCacheHandler.
MemoryHandlerFind(st) == st.mem
MemoryHandlerSave(st, token_data) == [st EXCEPT !.mem = token_data]

\* spotipy FileCacheHandler.
FileHandlerFind(st) == IF st.file = NoFile THEN NoData ELSE json_loads(st.file)
FileHandlerSave(st, token_data) == [st EXCEPT !.file = json_dumps(token_data)]

\* spotipy ShelfCacheHandler (search key "token_data"): os.path.exists(path)
\* holds only where the database is the single file path.
ShelfSearchKey == <<"token_data">>
ShelfHandlerFind(st, layout) ==
    IF ~(st.written /\ layout = "single") THEN NoData
    ELSE IF ShelfSearchKey \in DOMAIN st.tab THEN st.tab[ShelfSearchKey]
    ELSE NoData
ShelfHandlerSave(st, token_data) ==
    [st EXCEPT !.tab = (ShelfSearchKey :> token_data) @@ st.tab, !.written = TRUE]

\* The cache backends of the two libraries.
AmpyrBackends == {"Null", "Memory", "File", "Shelf"}
SpotipyBackends == {"memory", "file", "shelf"}

\* cache_manager.find(key) / cursor.find_token_data() of backend b.
CacheFind(b, layout, st, key) ==
    CASE b = "Null" -> NullFind(st, key)
      [] b = "Memory" -> MemoryFind(st, key)
      [] b = "File" -> FileFind(st, key)
      [] b = "Shelf" -> ShelfFind(st, key, layout)
      [] b = "memory" -> MemoryHandlerFind(st)
      [] b = "file" -> FileHandlerFind(st)
      [] b = "shelf" -> ShelfHandlerFind(st, layout)

\* cache_manager.save(key, data) / cursor.save_token_data(data) of backend b.
CacheSave(b, st, key, data) ==
    CASE b = "Null" -> NullSave(st, key, data)
      [] b = "Memory" -> MemorySave(st, key, data)
      [] b = "File" -> FileSave(st, key, data)
      [] b = "Shelf" -> ShelfSave(st, key, data)
      [] b = "memory" -> MemoryHandlerSave(st, data)
      [] b = "file" -> FileHandlerSave(st, data)
      [] b = "shelf" -> ShelfHandlerSave(st, data)

\* ------------------------------------------------------------------------
\* Flow configuration (the constructor arguments of a flow object).
\* Opaque strings (state, code, ids, urls) are one-element sequences, the
\* empty string is << >>.
\* ------------------------------------------------------------------------
StateXyz == <<"xyz">>
StateAbc == <<"abc">>
CodeNumeric == <<"1">>
CodeText == <<"x">>
ClientId == <<"c1">>

\* Redirect URLs: [scheme, host, port]; port None when the URL has none.
RedirectLocal == [scheme |-> "http", host |-> "127.0.0.1", port |-> None]
RedirectLocalPort == [scheme |-> "http", host |-> "localhost", port |-> <<"9090">>]
RedirectRemote == [scheme |-> "https", host |-> "example.com", port |-> None]

FlowOf(variant, type, backend, layout, scope, state, code, redirect) ==
    [variant |-> variant, type |-> type, backend |-> backend, layout |-> layout,
     scope |-> scope, state |-> state, code |-> code, redirect |-> redirect,
     user |-> None, code_verifier |-> None, client_id |-> ClientId]

\* Client-credentials flows over every cache backend.
CcFlows ==
    {FlowOf("ampyr", "client_credentials", b, "single", sc, None, None, RedirectLocal) :
        b \in AmpyrBackends \ {"Shelf"}, sc \in {None, ScopeReadWrite}}
    \cup
    {FlowOf("ampyr", "client_credentials", "Shelf", l, None, None, None, RedirectLocal) :
        l \in DbmLayouts}
    \cup
    {FlowOf("spotipy", "client_credentials", b, "single", None, None, None, RedirectLocal) :
        b \in SpotipyBackends \ {"shelf"}}
    \cup
    {FlowOf("spotipy", "client_credentials", "shelf", l, None, None, None, RedirectLocal) :
        l \in DbmLayouts}

\* Authorization-code flows: without a pre-supplied code over every
\* expected state and redirect URL, and with a pre-supplied code.
AuthFlows ==
    {FlowOf("ampyr", "authorization_code", "Memory", "single", ScopeReadWrite, st, None, r) :
        st \in {None, << >>, StateXyz},
        r \in {RedirectLocal, RedirectLocalPort, RedirectRemote}}
    \cup
    {FlowOf("spotipy", "authorization_code", "file", "single", ScopeReadWrite, st, None, RedirectLocal) :
        st \in {None, << >>, StateXyz}}
    \cup
    {FlowOf(v, "authorization_code", IF v = "ampyr" THEN "Memory" ELSE "file", "single",
            ScopeReadWrite, StateXyz, c, r) :
        v \in {"ampyr", "spotipy"}, c \in {CodeNumeric},
        r \in {RedirectLocal}}
    \cup
    {FlowOf("spotipy", "authorization_code", "file", "single", ScopeReadWrite, StateXyz,
            None, RedirectRemote)}

Flows == CcFlows \cup AuthFlows

\* _make_search_key: the key "name:client_id" as its segments.
make_search_key(f) ==
    (IF Truthy(f.user) THEN f.user ELSE <<f.type>>) \o f.client_id

\* The scope handed to the validator: ampyr normalizes the configured
\* scope; the spotipy ClientCredentialsFlow leaves credentials.scope None,
\* the spotipy AuthorizationFlow normalizes at construction.
RequiredScope(f) ==
    IF f.variant = "spotipy" /\ f.type = "client_credentials" THEN None
    ELSE normalize_scope(IF Truthy(f.scope) THEN f.scope ELSE << >>)

\* Mutant of Validate: the required scope is not handed to the validator.
Validate_NoScope(f, data, t) ==
    IF f.variant = "ampyr" THEN validate(data, None, t)
    ELSE validate_token(data, None, t)
\* state = tokens.validate(data, scope=scope) /
\* token_state = validate_token(token_data, auth_scope=scope)
Validate(f, data, t) ==
    IF f.variant = "ampyr" THEN validate(data, RequiredScope(f), t)
    ELSE validate_token(data, RequiredScope(f), t)

\* ------------------------------------------------------------------------
\* Payloads, responses and errors.
\* ------------------------------------------------------------------------
\* Python False as a payload value.
PyFalse == <<"<False>">>
\* Mutant of normalize_payload_not_none: every falsy value is dropped.
normalize_payload_DropFalsy(payload) ==
    [k \in {x \in DOMAIN payload : Truthy(payload[x]) /\ payload[x] # PyFalse}
        |-> payload[k]]
\* ampyr _normalize_payload: drop the entries whose value is None.
\* (named as in the source, without the leading underscore)
normalize_payload_not_none(payload) ==
    [k \in {x \in DOMAIN payload : payload[x] # None} |-> payload[k]]
\* spotipy normalize_payload: drop the entries whose value is falsy.
normalize_payload(payload) ==
    [k \in {x \in DOMAIN payload : Truthy(payload[x])} |-> payload[k]]

RedirectUri(r) == <<r.scheme, r.host>> \o (IF r.port = None THEN << >> ELSE r.port)

ClientCredentialsPayload == [grant_type |-> <<"client_credentials">>]
\* Mutant of RefreshPayload: the client-credentials payload is posted.
RefreshPayload_Factory(data) == ClientCredentialsPayload
RefreshPayload(data) ==
    [refresh_token |-> data["refresh_token"], grant_type |-> <<"refresh_token">>]
\* The payload built by the factory of the authorization-code flows.
AuthorizationPayload(f, code) ==
    LET p == [redirect_uri |-> RedirectUri(f.redirect),
              grant_type |-> <<"authorization_code">>,
              code |-> code,
              scope |-> IF f.variant = "ampyr" THEN f.scope
                        ELSE normalize_scope(IF Truthy(f.scope) THEN f.scope ELSE << >>),
              state |-> f.state]
    IN IF f.variant = "ampyr" THEN normalize_payload_not_none(p)
       ELSE normalize_payload(p)

\* ------------------------------------------------------------------------
\* Request headers and the PKCE grant.
\* ------------------------------------------------------------------------
ClientSecret == <<"s1">>
b64encode(bytes) == [b64 |-> bytes]
\* make_auth_string / make_authstring: "Basic " + base64("id:secret").
make_auth_string(client_id, client_secret) ==
    <<"Basic ", b64encode(client_id \o <<":">> \o client_secret)>>
\* make_headers: the headers of the flows that authenticate as a client.
make_headers(f) == [Authorization |-> make_auth_string(ClientId, ClientSecret)]
\* make_code_verifier(): a pseudo-random url-safe string.
CodeVerifiers == {<<"v1">>, <<"v2">>}
NoHeaders == << >>
\* Mutant of PkceHeaders: the Basic header of the other flows is sent.
PkceHeaders_Basic(f) == make_headers(f)
\* The PKCE flow takes no client secret: its requests carry no
\* Authorization header.
PkceHeaders(f) == NoHeaders
\* The PKCE payload: the authorization-code payload with client_id and
\* code_verifier added.
PkcePayload(f, code) ==
    AuthorizationPayload(f, code) @@
        [client_id |-> ClientId, code_verifier |-> f.code_verifier]
\* The headers a flow hands to the token request.
RequestHeaders(f) == IF f.type = "pkce" THEN PkceHeaders(f) ELSE make_headers(f)
\* The payload of the flows that send an authorization code.
CodePayload(f, code) ==
    IF f.type = "pkce" THEN PkcePayload(f, code) ELSE AuthorizationPayload(f, code)
PkceFlows ==
    {[FlowOf("spotipy", "pkce", "file", "single", ScopeReadWrite, st, c, r)
         EXCEPT !.code_verifier = v] :
        st \in {None, StateXyz}, c \in {None, CodeNumeric},
        r \in {RedirectLocal, RedirectRemote}, v \in CodeVerifiers}

\* DEFAULT_OAUTH_URL
DEFAULT_OAUTH_URL == <<"http", "127.0.0.1">>
\* What the token endpoint may answer.
ServerScopes == {ScopeRead}
ServerExpiresIn == {30, 3600}
AccessToken(n) == <<"t", n>>
RefreshToken(n) == <<"r", n>>
\* The JSON bodies of a 2xx answer to the n-th successful exchange.
TokenResponses(n) ==
    {("access_token" :> AccessToken(n)) @@ rt @@ sc @@ ex :
        rt \in {EmptyDict, "refresh_token" :> RefreshToken(n)},
        sc \in {EmptyDict} \cup {"scope" :> x : x \in ServerScopes},
        ex \in {EmptyDict} \cup {"expires_in" :> x : x \in ServerExpiresIn}}
\* The non-2xx answers: a JSON body with or without an error field, or a
\* body that is not JSON.
InvalidGrant == <<"invalid_grant">>
BodyText == <<"Bad Request">>
ErrorResponses ==
    {[status |-> 400, json |-> TRUE, error |-> InvalidGrant, text |-> BodyText],
     [status |-> 400, json |-> TRUE, error |-> None, text |-> BodyText],
     [status |-> 500, json |-> FALSE, error |-> None, text |-> BodyText]}

\* A raised exception: the class named in the raise statement with the
\* status and message it was given (status 0 and message None when none).
Err(kind, status, message) == [kind |-> kind, status |-> status, message |-> message]
NoError == Err("", 0, None)
NoResult == [none |-> TRUE]

\* ampyr _handle_http_error.
SomethingWentWrong == <<"something went wrong.">>
ampyr_handle_http_error(resp) == Err("OAuth2Exception", resp.status, SomethingWentWrong)
\* spotipy handle_http_error (code = status.value).
handle_http_error(resp) ==
    LET error_message == IF resp.json THEN resp.error
                         ELSE IF Truthy(resp.text) THEN resp.text ELSE None
    IN Err("SpotifyOAuthError", resp.status, error_message)

HandleHttpError(f, resp) ==
    IF f.variant = "ampyr" THEN ampyr_handle_http_error(resp) ELSE handle_http_error(resp)

\* hasattr(data, name) of a dict: the keys of a dict are not attributes.
hasattr(data, name) == FALSE

\* ampyr set_expires(data) without an expires_at argument.
set_expires(data, t) ==
    IF hasattr(data, "expires_in")
    THEN ("expires_at" :> (t + data["expires_in"])) @@ data
    ELSE ("expires_at" :> (t + DEFAULT_EXPIRES_IN)) @@ data

\* spotipy set_expires_at: token_data["expires_in"] raises KeyError.
set_expires_at(token_data, t) ==
    IF "expires_in" \notin DOMAIN token_data THEN Raise("KeyError")
    ELSE ("expires_at" :> (t + token_data["expires_in"])) @@ token_data

SetExpires(f, data, t) ==
    IF f.variant = "ampyr" THEN set_expires(data, t) ELSE set_expires_at(data, t)

\* if "scope" not in data: data["scope"] = scope
DefaultScope(f, data) ==
    IF "scope" \in DOMAIN data THEN data ELSE ("scope" :> RequiredScope(f)) @@ data

\* ------------------------------------------------------------------------
\* State.
\* ------------------------------------------------------------------------
VARIABLES
    flow,        \* the flow object (its constructor arguments)
    now,         \* int(time.time())
    ticks,       \* how many times the clock has advanced
    store,       \* what the cache backend holds
    pc,          \* position of the operation in progress
    call,        \* the operation in progress or last finished
    found,       \* data returned by the last cache find of the call
    tokenState,  \* classification of found by the validator
    sent,        \* payloads posted to the token endpoint in this call
    result,      \* value returned by the call
    error,       \* exception raised by the call
    snapshot,    \* store at the start of the call
    issued,      \* successful exchanges answered so far
    calls,       \* operations started so far
    server,      \* the local HTTP server of the listener in this call
    lastResp,    \* last answer of the token endpoint
    receipt,     \* clock at the last successful exchange
    saved,       \* the record last passed to save in this call
    saves,       \* how many times this call has saved
    request,     \* the request handled by the listener in this call
    cacheOp,     \* last direct use of a cache backend
    check,       \* last direct use of the token validator
    probe,       \* last direct use of a scope utility
    caller,      \* the orchestrator object that made the last call
    race,        \* two executions of _aquire_token that share a key
    handlers,    \* cache handler objects constructed so far
    headers      \* request headers of the call's last post to the token endpoint

vars == <<flow, now, ticks, store, pc, call, found, tokenState, sent, result,
          error, snapshot, issued, calls, server, lastResp, receipt, saved,
          saves, request, cacheOp, check, probe, caller, race, handlers, headers>>

NoServer == [accepting |-> FALSE, bound |-> FALSE, host |-> None, port |-> None,
             auth_code |-> None, state |-> None, error |-> None,
             handled |-> 0, browser |-> FALSE, page |-> "none"]
NoRequest == [none |-> TRUE]
NoCacheOp == [none |-> TRUE]
NoCheck == [none |-> TRUE]
NoProbe == [none |-> TRUE]
NoRace == [none |-> TRUE]
NoHandlers == << >>

\* ------------------------------------------------------------------------
\* The body of _aquire_token (ampyr) / get_token_data (spotipy) from the
\* cache lookup up to the point where it returns, raises, posts a payload
\* to the token endpoint or blocks in the listener.
\* ------------------------------------------------------------------------
Returned(v) == pc' = "returned" /\ result' = v /\ error' = NoError
Raised(e) == pc' = "raised" /\ error' = e /\ result' = NoResult
\* The payloads posted so far stay as they are, and with them the headers
\* of the last post.
Kept(snt) == sent' = snt /\ headers' = IF snt = << >> THEN NoHeaders ELSE headers
Posted(p, snt) ==
    /\ pc' = "exchange" /\ sent' = Append(snt, p) /\ result' = NoResult /\ error' = NoError
    /\ headers' = RequestHeaders(flow)

\* hosts._get_host_info / get_auth_response: is a local server expected.
\* Mutant of IsLocalRedirect: the scheme is not looked at.
IsLocalRedirect_AnyScheme(r) == r.host \in {"127.0.0.1", "localhost"}
IsLocalRedirect(r) == r.host \in {"127.0.0.1", "localhost"} /\ r.scheme = "http"
\* port = port or 8080, where port is urlparse(...).port: None or an int,
\* and 0 is falsy.
DefaultPort == <<"8080">>
PortZero == <<"0">>
ListenPort(r) == IF r.port # None /\ r.port # PortZero THEN r.port ELSE DefaultPort
\* LOCALHOST_ALIASES[0] / "127.0.0.1": the address the server binds.
Loopback == <<"127.0.0.1">>

\* _open_auth_server / make_server, webbrowser.open, handle_request.
OpenListener(f) ==
    /\ pc' = "listening"
    /\ server' = [accepting |-> TRUE, bound |-> TRUE, host |-> Loopback,
                  port |-> ListenPort(f.redirect),
                  auth_code |-> None, state |-> None, error |-> None,
                  handled |-> 0, browser |-> TRUE, page |-> "none"]
    /\ result' = NoResult /\ error' = NoError

\* The value a finished call returns for the record data: the ampyr
\* Authorization.aquire returns the record, the others its access_token.
ReturnsRecord(f) == f.variant = "ampyr" /\ f.type = "authorization_code"
ReturnValue(f, data) == IF ReturnsRecord(f) THEN data ELSE data["access_token"]

\* Mutant of Factory: the listener is started although a code was
\* pre-supplied.
Factory_AlwaysListen(f, snt, srv) ==
    IF f.type = "client_credentials"
    THEN Posted(ClientCredentialsPayload, snt) /\ server' = srv
    ELSE IF f.variant = "spotipy" /\ IsLocalRedirect(f.redirect)
    THEN OpenListener(f) /\ Kept(snt)
    ELSE Posted(CodePayload(f, f.code), snt) /\ server' = srv

\* factory(): the grant-specific payload.  srv is the server object of
\* the call so far, a local of the listener function.
Factory(f, snt, srv) ==
    IF f.type = "client_credentials"
    THEN Posted(ClientCredentialsPayload, snt) /\ server' = srv
    ELSE IF Truthy(f.code)
    THEN Posted(CodePayload(f, f.code), snt) /\ server' = srv
    ELSE IF f.variant = "ampyr"
    \* flows.py reads self.oauth_code, which nothing assigns, and calls
    \* hosts.get_response through a name it does not import.
    THEN Raised(Err("AttributeError", 0, None)) /\ Kept(snt) /\ server' = srv
    ELSE IF IsLocalRedirect(f.redirect)
    THEN OpenListener(f) /\ Kept(snt)
    ELSE Posted(CodePayload(f, None), snt) /\ server' = srv

AquireToken(f, st, snt, t, srv) ==
    LET data == CacheFind(f.backend, f.layout, st, make_search_key(f))
        state == IF IsRaise(data) THEN "raise" ELSE Validate(f, data, t)
    IN /\ found' = data
       /\ tokenState' = state
       /\ store' = st
       /\ CASE state = "raise" ->
                 Raised(Err(data.raise, 0, None)) /\ Kept(snt) /\ server' = srv
            [] state = "KeyError" ->
                 Raised(Err("KeyError", 0, None)) /\ Kept(snt) /\ server' = srv
            [] state = "ISVALID" ->
                 /\ Kept(snt) /\ server' = srv
                 /\ IF ReturnsRecord(f) \/ "access_token" \in DOMAIN data
                    THEN Returned(ReturnValue(f, data))
                    ELSE Raised(Err("KeyError", 0, None))
            [] state = "EXPIRED" ->
                 /\ server' = srv
                 /\ IF "refresh_token" \in DOMAIN data
                    THEN Posted(RefreshPayload(data), snt)
                    ELSE Raised(Err("KeyError", 0, None)) /\ Kept(snt)
            [] state = "INVALID" -> Factory(f, snt, srv)

\* ------------------------------------------------------------------------
\* Operations.
\* ------------------------------------------------------------------------
TimeSteps == {3540, 3541}
NoResp == [none |-> TRUE]
CodeZero == <<"0">>

Idle == pc \in {"idle", "returned", "raised"}

\* aquire() / get_access_token(): start of a get-access-token call.  The
\* spotipy find_token_data opens a pool and takes a new handler; a new
\* MemoryCacheHandler holds no token data.
AquireBy(o) ==
    /\ Idle /\ calls < MaxCalls
    /\ caller' = o
    /\ LET st0 == IF flow.backend = "memory" THEN [store EXCEPT !.mem = NoData]
                  ELSE store
       IN /\ snapshot' = st0
          /\ AquireToken(flow, st0, << >>, now, NoServer)
    /\ call' = "aquire"
    /\ calls' = calls + 1
    /\ saved' = NoData
    /\ saves' = 0
    /\ request' = NoRequest
    /\ lastResp' = NoResp
    /\ UNCHANGED <<flow, now, ticks, issued, receipt, cacheOp, check, probe, race, handlers>>

\* The flow object calls aquire() / get_access_token().
Aquire == AquireBy(1)
\* A second flow object, constructed with the same arguments, makes the
\* call: it has a cache manager of its own (_new_cache_manager), over the
\* same class-level dictionary or the same path.
AquireSecond == AquireBy(2)

\* Mutant of RespondError: a failed exchange is posted once more instead
\* of being raised.
RespondError_Retry ==
    /\ pc = "exchange"
    /\ \E resp \in ErrorResponses :
         /\ lastResp' = resp
         /\ IF lastResp = NoResp \/ lastResp = [status |-> 200]
            THEN Posted(sent[Len(sent)], sent)
            ELSE Raised(HandleHttpError(flow, resp)) /\ Kept(sent)
    /\ UNCHANGED <<flow, now, ticks, store, call, found, tokenState, snapshot,
                   issued, calls, server, receipt, saved, saves, request, cacheOp,
                   check, probe, caller, race, handlers>>
\* _request_token / _get_token_data on a non-2xx answer.
RespondError ==
    /\ pc = "exchange"
    /\ \E resp \in ErrorResponses :
         /\ lastResp' = resp
         /\ Raised(HandleHttpError(flow, resp))
    /\ UNCHANGED <<flow, now, ticks, store, call, found, tokenState, sent, snapshot,
                   issued, calls, server, receipt, saved, saves, request, cacheOp, check, probe, caller, race, handlers, headers>>

\* _request_token / _get_token_data on a 2xx answer, then the rest of
\* _aquire_token / get_token_data: default the scope, save, and call
\* itself again.
RespondToken ==
    /\ pc = "exchange" /\ issued < MaxIssued
    /\ \E body \in TokenResponses(issued + 1) :
         LET d1 == SetExpires(flow, body, now) IN
         /\ lastResp' = [status |-> 200]
         /\ IF IsRaise(d1)
            THEN /\ Raised(Err(d1.raise, 0, None))
                 /\ UNCHANGED <<store, found, tokenState, sent, server, saved, saves, headers>>
            ELSE LET d2 == DefaultScope(flow, d1)
                     st1 == CacheSave(flow.backend, store, make_search_key(flow), d2)
                 IN /\ saved' = d2
                    /\ saves' = saves + 1
                    /\ AquireToken(flow, st1, sent, now, server)
    /\ issued' = issued + 1
    /\ receipt' = now
    /\ UNCHANGED <<flow, now, ticks, call, snapshot, calls, request, cacheOp, check, probe, caller, race, handlers>>

\* The query parameters of the request the browser is redirected with
\* (parse_qsl drops blank values, so a parameter is a non-empty string or
\* is not there).
Requests ==
    [code : {None, CodeNumeric, CodeText}, state : {None, StateXyz, StateAbc},
     error : {FALSE}]
    \cup [code : {None, CodeNumeric}, state : {None, StateXyz}, error : {TRUE}]

\* ampyr _parse_server_response.
parse_server_response(srv, req) ==
    IF req.error THEN [srv EXCEPT !.error = <<"OAuth2HttpError">>]
    ELSE [srv EXCEPT !.auth_code = req.code, !.state = req.state]

\* spotipy parse_url_response: int(code or 0) raises ValueError for a code
\* that is not a number, which ends the handler before anything is set.
parse_url_response(srv, req) ==
    IF req.error THEN [srv EXCEPT !.error = <<"SpotifyOAuthError">>]
    ELSE IF req.code = CodeText THEN srv
    ELSE [srv EXCEPT !.auth_code = IF req.code = None THEN CodeZero ELSE req.code,
                     !.state = req.state]

\* do_GET after the parse: the template written to the browser.  The
\* spotipy handler is ended by the ValueError of int(code) before it
\* answers.
Page(f, srv, req) ==
    IF f.variant = "ampyr"
    THEN (IF srv.error # None THEN "failure"
          ELSE IF Truthy(srv.auth_code) THEN "success" ELSE "failure")
    ELSE IF ~req.error /\ req.code = CodeText THEN "none"
    ELSE IF srv.error = None /\ ~(Truthy(srv.auth_code) /\ srv.auth_code # CodeZero)
    THEN "failure"
    ELSE "success"

\* The checks of _request_user_auth / local_auth_response after
\* handle_request: the error to raise, or NoError.
AuthResponseError(f, srv) ==
    IF srv.error # None
    THEN Err(srv.error[1], 500, None)
    ELSE IF Truthy(f.state) /\ srv.state # f.state
    THEN (IF f.variant = "ampyr" THEN Err("OAuth2BadStateError", 409, None)
          ELSE Err("SpotifyStateError", 500, None))
    ELSE IF Truthy(srv.auth_code) /\ srv.auth_code # CodeZero
    THEN NoError
    ELSE (IF f.variant = "ampyr" THEN Err("OAuth2HttpError", 401, None)
          ELSE Err("SpotifyOAuthError", 500, None))

\* Mutant of HandleRequest: the listener gives up waiting and the caller
\* raises, with no request received.
HandleRequest_Timeout ==
    /\ pc = "listening"
    /\ server' = [server EXCEPT !.accepting = FALSE]
    /\ Raised(Err("TimeoutError", 0, None))
    /\ UNCHANGED <<flow, now, ticks, store, call, found, tokenState, sent, snapshot,
                   issued, calls, lastResp, receipt, saved, saves, request, cacheOp,
                   check, probe, caller, race, handlers, headers>>
\* server.handle_request() handles one request, then the caller checks
\* the outcome; the spotipy factory goes on to build and post the payload.
\* Nothing calls server_close(): the listening socket lasts as long as
\* the server object, which a raised exception keeps alive through its
\* frame and which the runtime reclaims at a time of its own after a
\* return.
HandleRequest ==
    /\ pc = "listening"
    /\ \E req \in Requests, reclaimed \in BOOLEAN :
         LET parsed == IF flow.variant = "ampyr" THEN parse_server_response(server, req)
                       ELSE parse_url_response(server, req)
             srv == [parsed EXCEPT !.accepting = FALSE, !.handled = @ + 1,
                                   !.page = Page(flow, parsed, req),
                                   !.bound = ~reclaimed]
             err == AuthResponseError(flow, srv)
         IN /\ err # NoError => ~reclaimed
            /\ request' = req
            /\ server' = srv
            /\ IF err # NoError THEN Raised(err) /\ Kept(sent)
               ELSE IF call = "get_user_auth" THEN Returned(srv.auth_code) /\ Kept(sent)
               ELSE Posted(CodePayload(flow, srv.auth_code), sent)
    /\ UNCHANGED <<flow, now, ticks, store, call, found, tokenState, snapshot, issued,
                   calls, lastResp, receipt, saved, saves, cacheOp, check, probe, caller, race, handlers>>

\* ampyr hosts.get_user_auth(flow).
GetUserAuth ==
    /\ Idle /\ calls < MaxCalls
    /\ caller' = 1
    /\ flow.variant = "ampyr" /\ flow.type = "authorization_code"
    /\ IF IsLocalRedirect(flow.redirect)
       THEN OpenListener(flow)
       ELSE Returned(None) /\ server' = NoServer
    /\ call' = "get_user_auth"
    /\ calls' = calls + 1
    /\ Kept(<< >>)
    /\ saved' = NoData
    /\ saves' = 0
    /\ request' = NoRequest
    /\ lastResp' = NoResp
    /\ snapshot' = store
    /\ UNCHANGED <<flow, now, ticks, store, found, tokenState, issued, receipt, cacheOp, check, probe, race, handlers>>

\* Time passes between two calls.
Tick ==
    /\ Idle /\ ticks < MaxTicks
    /\ 0 < calls /\ calls < MaxCalls
    /\ \E d \in TimeSteps : now' = now + d
    /\ ticks' = ticks + 1
    /\ UNCHANGED <<flow, store, pc, call, found, tokenState, sent, result, error,
                   snapshot, issued, calls, server, lastResp, receipt, saved,
                   saves, request, cacheOp, check, probe, caller, race, handlers, headers>>

\* The variables of a call before any call has been made.
NoCall ==
    /\ ticks = 0
    /\ pc = "idle"
    /\ call = "none"
    /\ found = NoData
    /\ tokenState = "none"
    /\ sent = << >>
    /\ result = NoResult
    /\ error = NoError
    /\ snapshot = EmptyStore
    /\ issued = 0
    /\ calls = 0
    /\ server = NoServer
    /\ headers = NoHeaders
    /\ lastResp = NoResp
    /\ receipt = 0
    /\ saved = NoData
    /\ saves = 0
    /\ request = NoRequest
    /\ caller = 0

Init ==
    /\ flow \in Flows
    /\ now = 0
    /\ store = EmptyStore
    /\ cacheOp = NoCacheOp
    /\ check = NoCheck
    /\ probe = NoProbe
    /\ NoCall
    /\ race = NoRace
    /\ handlers = NoHandlers

Next ==
    \/ Aquire
    \/ RespondError
    \/ RespondToken
    \/ HandleRequest
    \/ GetUserAuth
    \/ Tick

Spec == Init /\ [][Next]_vars

\* The steps of the get-access-token calls alone, at one instant: lookup,
\* listener and exchange, without the clock and without the standalone
\* user-authorization request.
NextGrant ==
    \/ Aquire
    \/ HandleRequest
    \/ RespondError
    \/ RespondToken

SpecGrant == Init /\ [][NextGrant]_vars

\* ------------------------------------------------------------------------
\* Two flow objects constructed with the same arguments, with and without
\* a user id, over every cache backend.
\* ------------------------------------------------------------------------
UserId == <<"u1">>
SharedFlows ==
    {[f EXCEPT !.user = u] :
        f \in CcFlows \cup {g \in AuthFlows : Truthy(g.code)}, u \in {None, UserId}}

InitShared ==
    /\ flow \in SharedFlows
    /\ now = 0
    /\ store = EmptyStore
    /\ cacheOp = NoCacheOp
    /\ check = NoCheck
    /\ probe = NoProbe
    /\ NoCall
    /\ race = NoRace
    /\ handlers = NoHandlers

NextShared ==
    \/ Aquire
    \/ AquireSecond
    \/ RespondError
    \/ RespondToken
    \/ Tick

SpecShared == InitShared /\ [][NextShared]_vars

\* ------------------------------------------------------------------------
\* Two executions of _aquire_token on flow objects that share a cache key
\* and the MemoryCacheManager, with their find, exchange and save steps
\* interleaved.  Nothing in the code takes a lock.
\* ------------------------------------------------------------------------
Threads == {1, 2}
RaceFlows ==
    {f \in CcFlows \cup {g \in AuthFlows : Truthy(g.code)} :
        f.variant = "ampyr" /\ f.backend = "Memory"}

InitRace ==
    /\ flow \in RaceFlows
    /\ now = 0
    /\ store = EmptyStore
    /\ cacheOp = NoCacheOp
    /\ check = NoCheck
    /\ probe = NoProbe
    /\ NoCall
    /\ handlers = NoHandlers
    /\ race = [pc |-> [t \in Threads |-> "find"],
               data |-> [t \in Threads |-> NoData],
               payload |-> [t \in Threads |-> NoData],
               saved |-> [t \in Threads |-> NoData],
               held |-> [t \in Threads |-> NoData],
               result |-> [t \in Threads |-> NoResult],
               writer |-> 0, written |-> NoData]

\* One execution does data = flow.cache_manager.find(key), validates it and
\* builds the payload of the exchange.
RaceFind(t) ==
    /\ race.pc[t] = "find"
    /\ LET data == CacheFind(flow.backend, flow.layout, store, make_search_key(flow))
           state == Validate(flow, data, now)
       IN race' =
            IF state = "ISVALID"
            THEN [race EXCEPT !.pc[t] = "returned", !.data[t] = data,
                              !.held[t] = data, !.result[t] = ReturnValue(flow, data)]
            ELSE IF state = "KeyError"
            THEN [race EXCEPT !.pc[t] = "raised", !.data[t] = data, !.held[t] = data]
            ELSE IF state = "EXPIRED"
            THEN (IF "refresh_token" \in DOMAIN data
                  THEN [race EXCEPT !.pc[t] = "post", !.data[t] = data,
                                    !.held[t] = data,
                                    !.payload[t] = RefreshPayload(data)]
                  ELSE [race EXCEPT !.pc[t] = "raised", !.data[t] = data,
                                    !.held[t] = data])
            ELSE [race EXCEPT !.pc[t] = "post", !.data[t] = data, !.held[t] = data,
                              !.payload[t] =
                                  IF flow.type = "client_credentials"
                                  THEN ClientCredentialsPayload
                                  ELSE CodePayload(flow, flow.code)]
    /\ UNCHANGED <<flow, now, ticks, store, pc, call, found, tokenState, sent, result,
                   error, snapshot, issued, calls, server, lastResp, receipt, saved,
                   saves, request, cacheOp, check, probe, caller, handlers, headers>>

\* _request_token of one execution gets a 2xx answer: set_expires and the
\* scope default, ready for the save.
RaceRespond(t) ==
    /\ race.pc[t] = "post" /\ issued < MaxIssued
    /\ \E body \in TokenResponses(issued + 1) :
         race' = [race EXCEPT !.pc[t] = "save",
                              !.data[t] = DefaultScope(flow, SetExpires(flow, body, now))]
    /\ issued' = issued + 1
    /\ UNCHANGED <<flow, now, ticks, store, pc, call, found, tokenState, sent, result,
                   error, snapshot, calls, server, lastResp, receipt, saved,
                   saves, request, cacheOp, check, probe, caller, handlers, headers>>

\* _request_token of one execution gets a non-2xx answer.
RaceFail(t) ==
    /\ race.pc[t] = "post"
    /\ race' = [race EXCEPT !.pc[t] = "raised"]
    /\ UNCHANGED <<flow, now, ticks, store, pc, call, found, tokenState, sent, result,
                   error, snapshot, issued, calls, server, lastResp, receipt, saved,
                   saves, request, cacheOp, check, probe, caller, handlers, headers>>

\* flow.cache_manager.save(key, data) of one execution, which then calls
\* _aquire_token again.
RaceSave(t) ==
    /\ race.pc[t] = "save"
    /\ store' = CacheSave(flow.backend, store, make_search_key(flow), race.data[t])
    /\ race' = [race EXCEPT !.pc[t] = "find", !.saved[t] = race.data[t],
                            !.writer = t, !.written = race.data[t]]
    /\ UNCHANGED <<flow, now, ticks, pc, call, found, tokenState, sent, result,
                   error, snapshot, issued, calls, server, lastResp, receipt, saved,
                   saves, request, cacheOp, check, probe, caller, handlers, headers>>

NextRace ==
    \E t \in Threads : RaceFind(t) \/ RaceRespond(t) \/ RaceFail(t) \/ RaceSave(t)

SpecRace == InitRace /\ [][NextRace]_vars

\* ------------------------------------------------------------------------
\* Client-credentials flows over every cache backend, where the write of a
\* backend that keeps its data on disc may fail.
\* ------------------------------------------------------------------------
DiscBackends == {"File", "Shelf", "file", "shelf"}

InitWrite ==
    /\ flow \in CcFlows
    /\ now = 0
    /\ store = EmptyStore
    /\ cacheOp = NoCacheOp
    /\ check = NoCheck
    /\ probe = NoProbe
    /\ NoCall
    /\ race = NoRace
    /\ handlers = NoHandlers

\* A 2xx answer whose record cannot be written: open(path, "w") or
\* shelve.open(path) raises OSError in save, and neither _aquire_token nor
\* get_token_data nor the cache pool catches it.
SaveFails ==
    /\ pc = "exchange" /\ issued < MaxIssued
    /\ flow.backend \in DiscBackends
    /\ \E body \in TokenResponses(issued + 1) :
         LET d1 == SetExpires(flow, body, now) IN
         /\ ~IsRaise(d1)
         /\ saved' = DefaultScope(flow, d1)
    /\ saves' = saves + 1
    /\ lastResp' = [status |-> 200]
    /\ Raised(Err("OSError", 0, None))
    /\ issued' = issued + 1
    /\ receipt' = now
    /\ UNCHANGED <<flow, now, ticks, store, call, found, tokenState, sent, snapshot,
                   calls, server, request, cacheOp, check, probe, caller, race,
                   handlers, headers>>

NextWrite ==
    \/ Aquire
    \/ RespondError
    \/ RespondToken
    \/ SaveFails

SpecWrite == InitWrite /\ [][NextWrite]_vars

\* ------------------------------------------------------------------------
\* Authorization-code flows without a code over redirect URLs of every
\* scheme, host and port: when is the listener started, and where.
\* ------------------------------------------------------------------------
ListenRedirects ==
    [scheme : {"http", "https"}, host : {"127.0.0.1", "localhost", "example.com"},
     port : {None, PortZero, <<"9090">>}]
ListenFlows ==
    {FlowOf(v, "authorization_code", IF v = "ampyr" THEN "Memory" ELSE "file", "single",
            ScopeReadWrite, StateXyz, None, r) :
        v \in {"ampyr", "spotipy"}, r \in ListenRedirects}

InitListen ==
    /\ flow \in ListenFlows
    /\ now = 0
    /\ store = EmptyStore
    /\ cacheOp = NoCacheOp
    /\ check = NoCheck
    /\ probe = NoProbe
    /\ NoCall
    /\ race = NoRace
    /\ handlers = NoHandlers

NextListen ==
    \/ Aquire
    \/ GetUserAuth
    \/ HandleRequest
    \/ RespondError
    \/ RespondToken

SpecListen == InitListen /\ [][NextListen]_vars

\* ------------------------------------------------------------------------
\* The PKCE flow: get_access_token over the listener and the exchange.
\* ------------------------------------------------------------------------
InitPkce ==
    /\ flow \in PkceFlows
    /\ now = 0
    /\ store = EmptyStore
    /\ cacheOp = NoCacheOp
    /\ check = NoCheck
    /\ probe = NoProbe
    /\ NoCall
    /\ race = NoRace
    /\ handlers = NoHandlers

NextPkce == Aquire \/ HandleRequest \/ RespondError \/ RespondToken \/ Tick

SpecPkce == InitPkce /\ [][NextPkce]_vars

\* ------------------------------------------------------------------------
\* ClientCredentialsFlow.get_access_token as written out in
\* spotipy/oauth/auth/flows.py: lookup, one exchange, save, return.
\* ------------------------------------------------------------------------
DraftFlows == {f \in CcFlows : f.variant = "spotipy"}

InitDraft ==
    /\ flow \in DraftFlows
    /\ now = 0
    /\ store = EmptyStore
    /\ cacheOp = NoCacheOp
    /\ check = NoCheck
    /\ probe = NoProbe
    /\ NoCall
    /\ race = NoRace
    /\ handlers = NoHandlers

\* cpool.new(), cursor.find_token_data(); a found record that has not
\* expired is returned from, otherwise the payload is posted.
DraftAquire ==
    /\ Idle /\ calls < MaxCalls
    /\ caller' = 1
    /\ LET st0 == IF flow.backend = "memory" THEN [store EXCEPT !.mem = NoData]
                  ELSE store
           token_data == CacheFind(flow.backend, flow.layout, st0, make_search_key(flow))
       IN /\ snapshot' = st0
          /\ store' = st0
          /\ found' = token_data
          /\ IF token_data # NoData /\ ~isexpired(token_data, now)
             THEN /\ Kept(<< >>)
                  /\ IF "access_token" \in DOMAIN token_data
                     THEN Returned(token_data["access_token"])
                     ELSE Raised(Err("KeyError", 0, None))
             ELSE Posted(ClientCredentialsPayload, << >>)
    /\ tokenState' = "none"
    /\ server' = NoServer
    /\ call' = "aquire"
    /\ calls' = calls + 1
    /\ saved' = NoData
    /\ saves' = 0
    /\ request' = NoRequest
    /\ lastResp' = NoResp
    /\ UNCHANGED <<flow, now, ticks, issued, receipt, cacheOp, check, probe, race, handlers>>

\* resp.json(), set_expires_at, cursor.save_token_data(token_data),
\* return token_data["access_token"].
DraftRespondToken ==
    /\ pc = "exchange" /\ issued < MaxIssued
    /\ \E body \in TokenResponses(issued + 1) :
         LET token_data == set_expires_at(body, now) IN
         /\ lastResp' = [status |-> 200, body |-> body]
         /\ IF IsRaise(token_data)
            THEN /\ Raised(Err(token_data.raise, 0, None))
                 /\ UNCHANGED <<store, saved, saves>>
            ELSE /\ store' = CacheSave(flow.backend, store, make_search_key(flow), token_data)
                 /\ saved' = token_data
                 /\ saves' = saves + 1
                 /\ IF "access_token" \in DOMAIN token_data
                    THEN Returned(token_data["access_token"])
                    ELSE Raised(Err("KeyError", 0, None))
    /\ issued' = issued + 1
    /\ receipt' = now
    /\ UNCHANGED <<flow, now, ticks, call, found, tokenState, sent, snapshot, calls,
                   server, request, cacheOp, check, probe, caller, race, handlers, headers>>

NextDraft == DraftAquire \/ DraftRespondToken \/ RespondError \/ Tick

SpecDraft == InitDraft /\ [][NextDraft]_vars

\* ------------------------------------------------------------------------
\* Two executions of the written-out ClientCredentialsFlow.get_access_token
\* over one cache file or shelf, their steps interleaved: lookup, one
\* exchange, save, return, with no lookup after the save.
\* ------------------------------------------------------------------------
DraftRaceFlows == {f \in DraftFlows : f.backend # "memory"}

InitDraftRace ==
    /\ flow \in DraftRaceFlows
    /\ now = 0
    /\ store = EmptyStore
    /\ cacheOp = NoCacheOp
    /\ check = NoCheck
    /\ probe = NoProbe
    /\ NoCall
    /\ handlers = NoHandlers
    /\ race = [pc |-> [t \in Threads |-> "find"],
               data |-> [t \in Threads |-> NoData],
               payload |-> [t \in Threads |-> NoData],
               saved |-> [t \in Threads |-> NoData],
               held |-> [t \in Threads |-> NoData],
               result |-> [t \in Threads |-> NoResult],
               writer |-> 0, written |-> NoData]

\* token_data = cursor.find_token_data(); a found record that has not
\* expired is returned from.
DraftRaceFind(t) ==
    /\ race.pc[t] = "find"
    /\ LET token_data == CacheFind(flow.backend, flow.layout, store, make_search_key(flow))
       IN race' =
            IF token_data # NoData /\ ~isexpired(token_data, now)
            THEN [race EXCEPT !.pc[t] = "returned", !.data[t] = token_data,
                              !.held[t] = token_data,
                              !.result[t] = token_data["access_token"]]
            ELSE [race EXCEPT !.pc[t] = "post", !.data[t] = token_data,
                              !.held[t] = token_data,
                              !.payload[t] = ClientCredentialsPayload]
    /\ UNCHANGED <<flow, now, ticks, store, pc, call, found, tokenState, sent, result,
                   error, snapshot, issued, calls, server, lastResp, receipt, saved,
                   saves, request, cacheOp, check, probe, caller, handlers, headers>>

\* session.post answered 2xx: resp.json() and set_expires_at.
DraftRaceRespond(t) ==
    /\ race.pc[t] = "post" /\ issued < MaxIssued
    /\ \E body \in TokenResponses(issued + 1) :
         LET token_data == set_expires_at(body, now) IN
         race' = IF IsRaise(token_data)
                 THEN [race EXCEPT !.pc[t] = "raised"]
                 ELSE [race EXCEPT !.pc[t] = "save", !.data[t] = token_data]
    /\ issued' = issued + 1
    /\ UNCHANGED <<flow, now, ticks, store, pc, call, found, tokenState, sent, result,
                   error, snapshot, calls, server, lastResp, receipt, saved,
                   saves, request, cacheOp, check, probe, caller, handlers, headers>>

\* cursor.save_token_data(token_data); return token_data["access_token"].
DraftRaceSave(t) ==
    /\ race.pc[t] = "save"
    /\ store' = CacheSave(flow.backend, store, make_search_key(flow), race.data[t])
    /\ race' = [race EXCEPT !.pc[t] = "returned", !.saved[t] = race.data[t],
                            !.result[t] = race.data[t]["access_token"],
                            !.writer = t, !.written = race.data[t]]
    /\ UNCHANGED <<flow, now, ticks, pc, call, found, tokenState, sent, result,
                   error, snapshot, issued, calls, server, lastResp, receipt, saved,
                   saves, request, cacheOp, check, probe, caller, handlers, headers>>

NextDraftRace ==
    \E t \in Threads :
        DraftRaceFind(t) \/ DraftRaceRespond(t) \/ RaceFail(t) \/ DraftRaceSave(t)

SpecDraftRace == InitDraftRace /\ [][NextDraftRace]_vars

\* ------------------------------------------------------------------------
\* The token validator called directly, over every kind of cached value
\* and required scope.
\* ------------------------------------------------------------------------
ValidatorScopes == {None, ScopeEmpty, ScopeRead, ScopeWrite, ScopeReadWrite}
\* None, or a mapping with or without scope and with or without expires_at.
ValidatorData(t) ==
    {NoData} \cup
    {("access_token" :> AccessToken(1)) @@ sc @@ ex :
        sc \in {EmptyDict} \cup {"scope" :> x : x \in {None, ScopeRead, ScopeReadWrite}},
        ex \in {EmptyDict} \cup {"expires_at" :> (t + d) : d \in {59, 60, 61}}}

InitValidate ==
    /\ flow \in {f \in CcFlows : f.backend \in {"Memory", "memory"} /\ f.scope = None}
    /\ now \in {0, 100}
    /\ store = EmptyStore
    /\ cacheOp = NoCacheOp
    /\ check \in [data : ValidatorData(now), scope : ValidatorScopes, state : {"none"}]
    /\ probe = NoProbe
    /\ NoCall
    /\ race = NoRace
    /\ handlers = NoHandlers

\* tokens.validate(data, scope=scope) / validate_token(token_data, auth_scope=scope)
ValidateCall ==
    /\ check.state = "none"
    /\ check' = [check EXCEPT !.state =
                    IF flow.variant = "ampyr" THEN validate(check.data, check.scope, now)
                    ELSE validate_token(check.data, check.scope, now)]
    /\ UNCHANGED <<flow, now, ticks, store, pc, call, found, tokenState, sent, result,
                   error, snapshot, issued, calls, server, lastResp, receipt, saved,
                   saves, request, cacheOp, probe, caller, race, handlers, headers>>

NextValidate == ValidateCall

SpecValidate == InitValidate /\ [][NextValidate]_vars

\* ------------------------------------------------------------------------
\* The cache backends used directly: save(key, data) and find(key).
\* ------------------------------------------------------------------------
\* A key of the form the flows build ("credentials:c1") and a key without
\* the join character.
KeyCredentials == <<"credentials">> \o ClientId
KeyPlain == <<"k">>
CacheKeys == {KeyCredentials, KeyPlain}
CacheRecords ==
    {("access_token" :> AccessToken(n)) @@ ("scope" :> ScopeRead)
        @@ ("expires_at" :> DEFAULT_EXPIRES_IN) : n \in {1, 2}}
CacheConfigs ==
    {[backend |-> b, layout |-> "single"] :
        b \in (AmpyrBackends \cup SpotipyBackends) \ {"Shelf", "shelf"}}
    \cup {[backend |-> b, layout |-> l] : b \in {"Shelf", "shelf"}, l \in DbmLayouts}

InitCache ==
    /\ flow \in {f \in CcFlows : f.backend = "Null" /\ f.scope = None}
    /\ now = 0
    /\ store = EmptyStore
    /\ \E c \in CacheConfigs :
         cacheOp = [backend |-> c.backend, layout |-> c.layout, op |-> "none",
                    key |-> None, data |-> NoData, findKey |-> None,
                    result |-> NoData, afterSave |-> FALSE]
    /\ check = NoCheck
    /\ probe = NoProbe
    /\ NoCall
    /\ race = NoRace
    /\ handlers = NoHandlers

\* manager.save(key, data) / handler.save_token_data(data)
SaveOp ==
    /\ \E k \in CacheKeys, r \in CacheRecords :
         /\ store' = CacheSave(cacheOp.backend, store, k, r)
         /\ cacheOp' = [cacheOp EXCEPT !.op = "save", !.key = k, !.data = r,
                                       !.findKey = None, !.result = NoData,
                                       !.afterSave = FALSE]
    /\ UNCHANGED <<flow, now, ticks, pc, call, found, tokenState, sent, result,
                   error, snapshot, issued, calls, server, lastResp, receipt, saved,
                   saves, request, check, probe, caller, race, handlers, headers>>

\* manager.find(key) / handler.find_token_data()
FindOp ==
    /\ \E k \in CacheKeys :
         cacheOp' = [cacheOp EXCEPT !.op = "find", !.findKey = k,
                                   !.result = CacheFind(cacheOp.backend, cacheOp.layout,
                                                        store, k),
                                   !.afterSave = (cacheOp.op = "save")]
    /\ UNCHANGED <<flow, now, ticks, store, pc, call, found, tokenState, sent, result,
                   error, snapshot, issued, calls, server, lastResp, receipt, saved,
                   saves, request, check, probe, caller, race, handlers, headers>>

NextCache == SaveOp \/ FindOp

SpecCache == InitCache /\ [][NextCache]_vars

\* ------------------------------------------------------------------------
\* Direct use of the spotipy cache handlers, as the handler test suite
\* uses them: handler objects of one class are constructed from a test
\* context (token_data, path, string_id) and asked to find and to save.
\* ------------------------------------------------------------------------
TestCache == <<".test-cache">>
DEFAULT_CACHE_PATH == <<".cache">>
\* make_cache_path(path, *ids)
make_cache_path(path, id) ==
    (IF Truthy(path) THEN path ELSE DEFAULT_CACHE_PATH) \o (IF Truthy(id) THEN id ELSE << >>)
HandlerPaths == {make_cache_path(p, u) : p \in {None, TestCache}, u \in {None, UserId}}
HandlerTokens == CacheRecords

InitHandlers ==
    /\ flow \in {f \in CcFlows : f.backend = "Null" /\ f.scope = None}
    /\ now = 0
    /\ store = EmptyStore
    /\ cacheOp = NoCacheOp
    /\ check = NoCheck
    /\ probe = NoProbe
    /\ NoCall
    /\ race = NoRace
    /\ \E c \in {x \in CacheConfigs : x.backend \in SpotipyBackends} :
         handlers = [kind |-> c.backend, layout |-> c.layout, objs |-> << >>,
                     disc |-> [p \in HandlerPaths |-> EmptyStore],
                     last |-> [op |-> "none", idx |-> 0, result |-> NoData,
                               fresh |-> FALSE, afterSave |-> FALSE]]

\* The store a handler object reads and writes: its own _token_data for
\* a MemoryCacheHandler, the file or database at its path otherwise.
HandlerStore(h, obj) ==
    IF h.kind = "memory" THEN [EmptyStore EXCEPT !.mem = obj.mem] ELSE h.disc[obj.path]

\* func(ctx): MemoryCacheHandler(token_data) /
\* FileCacheHandler(path, user_id=string_id) / ShelfCacheHandler(...)
NewHandler ==
    /\ handlers # NoHandlers
    /\ Len(handlers.objs) < MaxHandlers
    /\ \E p \in {None, TestCache}, u \in {None, UserId}, t \in HandlerTokens :
         handlers' =
           [handlers EXCEPT
              !.objs = Append(@, [path |-> make_cache_path(p, u), ctx |-> t,
                                  mem |-> IF handlers.kind = "memory" THEN t ELSE NoData,
                                  saved |-> NoData]),
              !.last = [op |-> "new", idx |-> Len(handlers.objs) + 1, result |-> NoData,
                        fresh |-> FALSE, afterSave |-> FALSE]]
    /\ UNCHANGED <<flow, now, ticks, store, pc, call, found, tokenState, sent, result,
                   error, snapshot, issued, calls, server, lastResp, receipt, saved,
                   saves, request, cacheOp, check, probe, caller, race, headers>>

\* handler.save_token_data(token_data)
HandlerSave ==
    /\ handlers # NoHandlers
    /\ \E i \in 1..Len(handlers.objs), t \in HandlerTokens :
         LET obj == handlers.objs[i]
             st == CacheSave(handlers.kind, HandlerStore(handlers, obj), ShelfSearchKey, t)
         IN handlers' =
              [handlers EXCEPT
                 !.objs[i] = [obj EXCEPT !.saved = t,
                                         !.mem = IF handlers.kind = "memory" THEN st.mem
                                                 ELSE NoData],
                 !.disc = IF handlers.kind = "memory" THEN @
                          ELSE [@ EXCEPT ![obj.path] = st],
                 !.last = [op |-> "save", idx |-> i, result |-> NoData,
                           fresh |-> FALSE, afterSave |-> FALSE]]
    /\ UNCHANGED <<flow, now, ticks, store, pc, call, found, tokenState, sent, result,
                   error, snapshot, issued, calls, server, lastResp, receipt, saved,
                   saves, request, cacheOp, check, probe, caller, race, headers>>

\* handler.find_token_data()
HandlerFind ==
    /\ handlers # NoHandlers
    /\ \E i \in 1..Len(handlers.objs) :
         LET obj == handlers.objs[i] IN
         handlers' =
           [handlers EXCEPT
              !.last = [op |-> "find", idx |-> i,
                        result |-> CacheFind(handlers.kind, handlers.layout,
                                             HandlerStore(handlers, obj), ShelfSearchKey),
                        fresh |-> (obj.saved = NoData),
                        afterSave |-> (handlers.last.op = "save" /\ handlers.last.idx = i)]]
    /\ UNCHANGED <<flow, now, ticks, store, pc, call, found, tokenState, sent, result,
                   error, snapshot, issued, calls, server, lastResp, receipt, saved,
                   saves, request, cacheOp, check, probe, caller, race, headers>>

NextHandlers == NewHandler \/ HandlerSave \/ HandlerFind

SpecHandlers == InitHandlers /\ [][NextHandlers]_vars

\* ------------------------------------------------------------------------
\* The cache entry of an orchestrator: the search key of the ampyr flows,
\* the path of the handler the spotipy flows construct.
\* ------------------------------------------------------------------------
ClientId2 == <<"c2">>
\* ClientCredentialsFlow leaves cache_params empty; AuthorizationFlow
\* hands user_id and cache_path to the file and shelf handlers.
CacheEntry(f) ==
    IF f.variant = "ampyr" THEN make_search_key(f)
    ELSE IF f.type = "client_credentials" THEN make_cache_path(None, None)
    ELSE make_cache_path(None, f.user)
\* Orchestrators of one library over the same cache class.
KeyFlows(v) ==
    {[FlowOf(v, ty, IF v = "ampyr" THEN "Memory" ELSE "file", "single", None, None,
             None, RedirectLocal) EXCEPT !.client_id = c, !.user = u] :
        ty \in {"client_credentials", "authorization_code"},
        c \in {ClientId, ClientId2}, u \in {None, UserId}}

InitKeys ==
    /\ flow \in {f \in CcFlows : f.backend \in {"Memory", "file"} /\ f.scope = None}
    /\ now = 0
    /\ store = EmptyStore
    /\ cacheOp = NoCacheOp
    /\ check = NoCheck
    /\ probe \in [op : {"cache_entry"}, a : KeyFlows(flow.variant),
                  b : KeyFlows(flow.variant),
                  done : {FALSE}, entry_a : {<< >>}, entry_b : {<< >>}]
    /\ NoCall
    /\ race = NoRace
    /\ handlers = NoHandlers

\* Both orchestrators work out where their record is kept.
EntryCall ==
    /\ probe.op = "cache_entry" /\ ~probe.done
    /\ probe' = [probe EXCEPT !.done = TRUE,
                              !.entry_a = CacheEntry(probe.a),
                              !.entry_b = CacheEntry(probe.b)]
    /\ UNCHANGED <<flow, now, ticks, store, pc, call, found, tokenState, sent, result,
                   error, snapshot, issued, calls, server, lastResp, receipt, saved,
                   saves, request, cacheOp, check, caller, race, handlers, headers>>

NextKeys == EntryCall

SpecKeys == InitKeys /\ [][NextKeys]_vars

\* ------------------------------------------------------------------------
\* The scope utilities called directly.
\* ------------------------------------------------------------------------
\* The characters of the scope arguments: two word characters and the two
\* separators.
ScopeAlphabet == {"r", "w", ",", " "}
\* Every string over ScopeAlphabet of at most n characters.
RECURSIVE StringsUpTo(_)
StringsUpTo(n) ==
    IF n = 0 THEN {<< >>}
    ELSE LET shorter == StringsUpTo(n - 1)
         IN shorter \cup {Append(x, c) : x \in shorter, c \in ScopeAlphabet}
ScopeStrings == StringsUpTo(MaxScopeLen)
\* Sequences of token strings.
ScopeTokens == {<<"r">>, <<"w">>}
ScopeLists ==
    {<< >>} \cup {<<x>> : x \in ScopeTokens}
            \cup {<<x, y>> : x \in ScopeTokens, y \in ScopeTokens}

\* normalize_scope of a str or of a sequence of str: only a str is split.
normalize_scope_of(kind, val) ==
    IF kind = "str" THEN normalize_scope(val) ELSE JoinWith(val, " ")

InitScope ==
    /\ flow \in {f \in CcFlows : f.backend = "Null" /\ f.scope = None}
    /\ now = 0
    /\ store = EmptyStore
    /\ cacheOp = NoCacheOp
    /\ check = NoCheck
    /\ \/ probe \in [op : {"scope_is_subset"}, first : ScopeStrings \cup {None},
                      second : ScopeStrings \cup {None}, done : {FALSE},
                      out : {FALSE}, swapped : {FALSE}]
       \/ probe \in [op : {"normalize_scope"}, kind : {"str"}, val : ScopeStrings,
                      done : {FALSE}, once : {<< >>}, twice : {<< >>}]
       \/ probe \in [op : {"normalize_scope"}, kind : {"list"}, val : ScopeLists,
                      done : {FALSE}, once : {<< >>}, twice : {<< >>}]
    /\ NoCall
    /\ race = NoRace
    /\ handlers = NoHandlers

\* scope_is_subset(first, second) and scope_is_subset(second, first)
SubsetCall ==
    /\ probe.op = "scope_is_subset" /\ ~probe.done
    /\ probe' = [probe EXCEPT !.done = TRUE,
                              !.out = scope_is_subset(probe.first, probe.second),
                              !.swapped = scope_is_subset(probe.second, probe.first)]
    /\ UNCHANGED <<flow, now, ticks, store, pc, call, found, tokenState, sent, result,
                   error, snapshot, issued, calls, server, lastResp, receipt, saved,
                   saves, request, cacheOp, check, caller, race, handlers, headers>>

\* normalize_scope(x) and normalize_scope(normalize_scope(x))
NormalizeCall ==
    /\ probe.op = "normalize_scope" /\ ~probe.done
    /\ LET once == normalize_scope_of(probe.kind, probe.val)
       IN probe' = [probe EXCEPT !.done = TRUE, !.once = once,
                                 !.twice = normalize_scope_of("str", once)]
    /\ UNCHANGED <<flow, now, ticks, store, pc, call, found, tokenState, sent, result,
                   error, snapshot, issued, calls, server, lastResp, receipt, saved,
                   saves, request, cacheOp, check, caller, race, handlers, headers>>

NextScope == SubsetCall \/ NormalizeCall

SpecScope == InitScope /\ [][NextScope]_vars

\* ------------------------------------------------------------------------
\* Direct use of _normalize_payload and _make_param_url.
\* ------------------------------------------------------------------------
PayloadKeys == {"code", "scope", "show_dialogue"}
PayloadValues == {None, PyFalse, << >>, <<"x">>}
Payloads == UNION {[ks -> PayloadValues] : ks \in SUBSET PayloadKeys}
\* urlparse.urlencode(payload): each entry as key=str(value).
urlencode(payload) == [k \in DOMAIN payload |-> <<k, "=">> \o payload[k]]
\* _make_param_url(baseurl, payload)
make_param_url(baseurl, payload) ==
    [base |-> baseurl, query |-> urlencode(normalize_payload_not_none(payload))]

InitPayload ==
    /\ flow \in {f \in AuthFlows : f.variant = "ampyr" /\ f.code = None /\ f.state = None
                                   /\ f.redirect = RedirectLocal}
    /\ now = 0
    /\ store = EmptyStore
    /\ cacheOp = NoCacheOp
    /\ check = NoCheck
    /\ probe \in [op : {"normalize_payload"}, payload : Payloads, done : {FALSE},
                  out : {<< >>}, after : {<< >>}, url : {<< >>}]
    /\ NoCall
    /\ race = NoRace
    /\ handlers = NoHandlers

\* _normalize_payload(payload): the entries are popped from a copy, the
\* argument is only read.
NormalizePayloadCall ==
    /\ probe.op = "normalize_payload" /\ ~probe.done
    /\ probe' = [probe EXCEPT !.done = TRUE,
                              !.out = normalize_payload_not_none(probe.payload),
                              !.after = probe.payload,
                              !.url = make_param_url(DEFAULT_OAUTH_URL, probe.payload)]
    /\ UNCHANGED <<flow, now, ticks, store, pc, call, found, tokenState, sent, result,
                   error, snapshot, issued, calls, server, lastResp, receipt, saved,
                   saves, request, cacheOp, check, caller, race, handlers, headers>>

NextPayload == NormalizePayloadCall

SpecPayload == InitPayload /\ [][NextPayload]_vars

\* ------------------------------------------------------------------------
\* Properties.
\* ------------------------------------------------------------------------
IsClientCredentials == flow.type = "client_credentials"
FlowKey == make_search_key(flow)
\* The call in progress ended on a non-2xx answer of the token endpoint.
HttpFailed == pc = "raised" /\ lastResp # NoResp /\ lastResp.status # 200
StateErrorKinds == {"OAuth2BadStateError", "SpotifyStateError"}

\* First half of C1: during the first call of a client-credentials flow,
\* started on an empty cache, at most one exchange is sent; when the call
\* has returned exactly one was sent, with the client_credentials payload,
\* and the returned record is what was saved under the flow's key.
C1_FirstCall ==
    (IsClientCredentials /\ call = "aquire" /\ calls = 1) =>
        /\ Len(sent) <= 1
        /\ (pc = "returned") =>
              /\ sent = <<ClientCredentialsPayload>>
              /\ saves = 1
              /\ store = CacheSave(flow.backend, snapshot, FlowKey, saved)
              /\ result = saved["access_token"]
\* Second half of C1: a second call, started while the record persisted
\* by the first is within its lifetime, returns the cached access_token
\* and sends nothing.
C1_SecondCall ==
    (/\ IsClientCredentials /\ call = "aquire" /\ calls = 1 /\ pc = "returned"
     /\ calls' = 2
     /\ saved["expires_at"] - now' >= 60)
    => (pc' = "returned" /\ sent' = << >> /\ result' = saved["access_token"])
\* C1: client-credentials flow from an empty cache: the first
\* get-access-token call sends exactly one exchange, with payload
\* {grant_type: client_credentials}, and persists the returned record
\* under the flow's key; a second call made within the record's lifetime
\* returns the cached access_token and sends no exchange.
C1_ClientCredentialsOnce == [][C1_FirstCall' /\ C1_SecondCall]_vars

\* C2: every get-access-token call terminates: after a fresh exchange and
\* cache write the validation is re-run at most once (so a call writes at
\* most once), and when the freshly persisted record is still not Valid
\* the call ends with an error instead of sending another exchange.
C2_RetryAtMostOnce ==
    (call = "aquire") =>
        /\ saves <= 1
        /\ (saves = 1 /\ tokenState # "ISVALID") => pc = "raised"

\* C3: when the token endpoint answers with a non-2xx status, the raised
\* error carries the response's status and, as its message, the error
\* field of the JSON body (the raw body text when the body is not JSON).
C3_HttpErrorMessage ==
    HttpFailed =>
        /\ error.status = lastResp.status
        /\ error.message = (IF lastResp.json THEN lastResp.error ELSE lastResp.text)

\* C4: a get-access-token call whose exchange fails leaves the cache
\* untouched: for every key, find(key) after the failed call returns
\* what it returned when the call started.
C4_FailedCallLeavesCache ==
    HttpFailed =>
        \A k \in CacheKeys \cup {FlowKey} :
            CacheFind(flow.backend, flow.layout, store, k)
                = CacheFind(flow.backend, flow.layout, snapshot, k)

\* C5: authorization-code flow: when the expected state is set and the
\* redirect received by the listener carries a different state (and no
\* error parameter), the call raises the state-mismatch error and no
\* request has been sent to the token endpoint in that call.
C5_StateMismatchBeforeExchange ==
    (/\ request # NoRequest /\ ~request.error
     /\ Truthy(flow.state) /\ request.state # flow.state)
    => (pc = "raised" /\ error.kind \in StateErrorKinds /\ sent = << >>)

\* The cache held a record with scope "r" for a flow that requires "r w".
ReadRecordFound ==
    /\ call = "aquire" /\ flow.scope = ScopeReadWrite
    /\ found # NoData /\ "scope" \in DOMAIN found /\ found["scope"] = ScopeRead
C7_ValidatorTotal ==
    (check # NoCheck /\ check.state # "none") => check.state \in TokenStates

\* C8: a record that passes the presence and scope checks is classified
\* Expired exactly when expires_at - now < 60 and Valid otherwise.
C8_ExpiryThreshold ==
    (/\ check # NoCheck /\ check.state \notin {"none", "INVALID"}
     /\ check.data # NoData /\ "expires_at" \in DOMAIN check.data)
    => /\ (check.state = "EXPIRED") <=> (check.data["expires_at"] - now < 60)
       /\ (check.state = "ISVALID") <=> (check.data["expires_at"] - now >= 60)
\* A record with expires_at = now + 59 has been classified Expired.
C8_Witness ==
    /\ check # NoCheck /\ check.state = "EXPIRED"
    /\ check.data["expires_at"] = now + 59

\* C9: every record persisted after a successful exchange carries
\* expires_at equal to the receipt time plus the response's expires_in,
\* or plus 3600 when the response has no expires_in.
C9_ExpiresAtFromResponse ==
    (saved # NoData) =>
        /\ "expires_at" \in DOMAIN saved
        /\ saved["expires_at"] =
              receipt + (IF "expires_in" \in DOMAIN saved THEN saved["expires_in"]
                         ELSE 3600)

\* C10: round trip: for every backend, key k and record r, find(k)
\* performed right after save(k, r) returns r.
C10_RoundTrip ==
    (/\ cacheOp # NoCacheOp /\ cacheOp.op = "find" /\ cacheOp.afterSave
     /\ cacheOp.findKey = cacheOp.key)
    => cacheOp.result = cacheOp.data

\* C11: scope_is_subset is symmetric: for all scope arguments a and b
\* (strings or None) scope_is_subset(a, b) = scope_is_subset(b, a); both
\* None gives true and exactly one None gives false.
C11_SubsetSymmetric ==
    (probe # NoProbe /\ probe.op = "scope_is_subset" /\ probe.done) =>
        /\ probe.out = probe.swapped
        /\ (probe.first = None /\ probe.second = None) => probe.out
        /\ ((probe.first = None) # (probe.second = None)) => ~probe.out
\* scope_is_subset("w", "r,w") and scope_is_subset("r,w", "w") have both
\* been computed and are both true.
C11_Witness ==
    /\ probe # NoProbe /\ probe.op = "scope_is_subset" /\ probe.done
    /\ probe.first = ScopeWrite /\ probe.second = ScopeReadCommaWrite
    /\ probe.out /\ probe.swapped

\* C12: normalize_scope is idempotent: normalizing the result of
\* normalize_scope(x) again gives the same string, for x a string or a
\* sequence of token strings.
C12_NormalizeIdempotent ==
    (probe # NoProbe /\ probe.op = "normalize_scope" /\ probe.done) =>
        probe.twice = probe.once

\* The tokens of a string of comma- or space-separated tokens: the pieces
\* between the separators.
RECURSIVE TokensFrom(_, _, _)
TokensFrom(s, i, cur) ==
    IF i > Len(s) THEN <<cur>>
    ELSE IF s[i] \in DelimChars THEN <<cur>> \o TokensFrom(s, i + 1, << >>)
    ELSE TokensFrom(s, i + 1, Append(cur, s[i]))
SeparatedTokens(s) == TokensFrom(s, 1, << >>)
\* s is one or more non-empty tokens, each two separated by one separator.
IsTokenString(s) ==
    s # << >> /\ \A i \in 1..Len(SeparatedTokens(s)) : SeparatedTokens(s)[i] # << >>
\* C13: normalize_scope of a string of comma- or space-separated tokens
\* is those tokens, in order and with duplicates, joined by single
\* spaces; of a sequence of strings it is the elements joined by single
\* spaces.
C13_NormalizeKeepsTokens ==
    (probe # NoProbe /\ probe.op = "normalize_scope" /\ probe.done) =>
        IF probe.kind = "str"
        THEN IsTokenString(probe.val) =>
                probe.once = JoinWith(SeparatedTokens(probe.val), " ")
        ELSE probe.once = JoinWith(probe.val, " ")

\* C14: no partial success: whenever a get-access-token call returns
\* normally, the value returned is the access_token string of a record
\* that the validator classified Valid against the flow's required scope
\* in that call.
C14_ReturnsValidAccessToken ==
    (call = "aquire" /\ pc = "returned") =>
        /\ tokenState = "ISVALID"
        /\ "access_token" \in DOMAIN found
        /\ result = found["access_token"]

\* The record the cache holds under the flow's key when a call starts from
\* store st (a new spotipy MemoryCacheHandler holds nothing).
CachedAtStart(st) ==
    CacheFind(flow.backend, flow.layout,
              IF flow.backend = "memory" THEN [st EXCEPT !.mem = NoData] ELSE st,
              FlowKey)
\* A get-access-token call starts while the cached record is Valid.
StartsOnValid ==
    /\ pc \in {"idle", "returned", "raised"}
    /\ call' = "aquire" /\ calls' = calls + 1
    /\ ~IsRaise(CachedAtStart(store))
    /\ Validate(flow, CachedAtStart(store), now) = "ISVALID"
\* C15: when the cached record under the flow's key classifies Valid,
\* get-access-token returns that record's access_token and does nothing
\* else: no exchange is sent, no listener or browser is started and
\* nothing is written to the cache.
C15_ValidShortCircuit ==
    [][StartsOnValid =>
         /\ pc' = "returned"
         /\ result' = CachedAtStart(store)["access_token"]
         /\ sent' = << >>
         /\ server' = NoServer
         /\ store' = store /\ saves' = 0]_vars

\* The token endpoint has answered an exchange of the call with a
\* non-2xx status.
ExchangeFailed == lastResp # NoResp /\ lastResp.status # 200
\* C16: the transport never retries: a failed exchange ends the call with
\* an error, and for the rest of that call no further request is sent to
\* the token endpoint, so the failed exchange is the only failed one and
\* the last of the call.
C16_NoRetryAfterFailure ==
    [][/\ ExchangeFailed' => pc' = "raised"
       /\ (ExchangeFailed /\ calls' = calls) =>
             (sent' = sent /\ lastResp' = lastResp /\ pc' = "raised")]_vars
\* A call has ended on a failed exchange that followed a successful one.
C16_Witness == HttpFailed /\ Len(sent) = 2 /\ saves = 1

\* A call starts right after a call of the other flow object that
\* persisted a record which is Valid now.
OtherPersistedValid ==
    /\ pc \in {"returned", "raised"} /\ call = "aquire"
    /\ call' = "aquire" /\ calls' = calls + 1
    /\ caller' # caller
    /\ saved # NoData
    /\ Validate(flow, saved, now) = "ISVALID"
\* C17: two orchestrators of the same flow type constructed with the same
\* client_id and user id use the same cache key and share one cache entry:
\* the record persisted by a call of one is the record the other finds,
\* and while it is Valid the other returns its access_token without an
\* exchange.
C17_SharedCacheEntry ==
    [][OtherPersistedValid =>
         /\ found' = saved
         /\ pc' = "returned"
         /\ result' = saved["access_token"]
         /\ sent' = << >>]_vars

\* C18: the listener is single-shot: an invocation handles exactly one
\* request, and when the invocation has returned or raised the listener
\* is shut down: it waits for no request and is no longer listening.
C18_ListenerSingleShot ==
    /\ server.handled <= 1
    /\ pc # "listening" => (~server.accepting /\ ~server.bound)

\* The error raised when no code was received.
MissingCodeError ==
    IF flow.variant = "ampyr" THEN Err("OAuth2HttpError", 401, None)
    ELSE Err("SpotifyOAuthError", 500, None)
\* C19: when the request handled by the listener carries neither a code
\* nor an error parameter, the caller of the listener raises the
\* missing-code error and the get-access-token call has sent no token
\* exchange.
C19_MissingCodeRaises ==
    (request # NoRequest /\ ~request.error /\ request.code = None)
    => (pc = "raised" /\ error = MissingCodeError /\ sent = << >>)

\* C20: when the request handled by the listener has an error parameter,
\* the listener records an error and takes neither code nor state from
\* the query, answers with the failure page, and its caller raises that
\* error, whatever the state and code, with no token exchange sent.
C20_ErrorParameterWins ==
    (request # NoRequest /\ request.error)
    => /\ server.error # None
       /\ server.auth_code = None /\ server.state = None
       /\ server.page = "failure"
       /\ pc = "raised" /\ error = Err(server.error[1], 500, None)
       /\ sent = << >>

\* C21: cache access is not locked and the last writer wins: when two
\* executions that share a cache key interleave their find, exchange and
\* save steps, the record stored under the key is, whole and unmerged,
\* the record passed to the save that ran last.
C21_LastWriterWins ==
    (race # NoRace /\ race.writer # 0) =>
        /\ FlowKey \in DOMAIN store.tab
        /\ store.tab[FlowKey] = race.written
        /\ race.written = race.saved[race.writer]
\* Both executions found the cache empty, both exchanged, and the second
\* save replaced a different record saved by the other execution.
C21_Witness ==
    /\ race # NoRace
    /\ race.writer = 1
    /\ race.saved[2] # NoData /\ race.saved[1] # race.saved[2]
    /\ DOMAIN race.saved[2] # DOMAIN race.saved[1]
    /\ store.tab[FlowKey] = race.saved[1]

\* C22: while the listener is waiting, the call has no transition other
\* than the receipt of an inbound request: every step out of the waiting
\* state is the handling of one request, so without a request the call
\* neither returns nor raises (no timeout, no cancellation).
C22_ListenerBlocks ==
    [][pc = "listening" =>
         /\ request' \in Requests
         /\ server'.handled = server.handled + 1
         /\ calls' = calls /\ now' = now]_vars
\* The listener of a get-access-token call is waiting for its request.
C22_Witness ==
    /\ pc = "listening" /\ call = "aquire"
    /\ server.accepting /\ server.browser /\ server.handled = 0

\* What backend b keeps in store st under key is the record data.
Holds(b, st, key, data) ==
    CASE b = "Null" -> FALSE
      [] b = "Memory" -> key \in DOMAIN st.tab /\ st.tab[key] = data
      [] b = "File" -> st.file # NoFile /\ st.file = build_keypair(key, json_dumps(data))
      [] b = "Shelf" -> st.written /\ key \in DOMAIN st.tab /\ st.tab[key] = data
      [] b = "memory" -> st.mem = data
      [] b = "file" -> st.file # NoFile /\ st.file = json_dumps(data)
      [] b = "shelf" ->
           st.written /\ ShelfSearchKey \in DOMAIN st.tab /\ st.tab[ShelfSearchKey] = data
\* C23: when the cache write of a freshly exchanged record fails or is
\* skipped, the call raises the storage failure and returns no access
\* token: no backend and no orchestrator step goes on after a save that
\* left the record unwritten.
C23_WriteFailurePropagates ==
    [][(saves' = saves + 1 /\ ~Holds(flow.backend, store', FlowKey, saved')) =>
         (pc' = "raised" /\ error'.kind = "OSError" /\ result' = NoResult)]_vars

\* The redirect URL names the loopback interface over plain http.
LoopbackHttp(r) == r.scheme = "http" /\ r.host \in {"127.0.0.1", "localhost"}
\* The listener has been started in this call.
ListenerStarted == server.bound \/ server.browser \/ server.accepting
\* C24 as stated: the listener is started only for an http redirect URL
\* on 127.0.0.1 or localhost, and it binds 127.0.0.1 on the port of the
\* redirect URL, or on 8080 when the redirect URL has no port.
C24_LoopbackOnly ==
    ListenerStarted =>
        /\ LoopbackHttp(flow.redirect)
        /\ server.host = Loopback
        /\ server.port = IF flow.redirect.port = None THEN DefaultPort
                         ELSE flow.redirect.port
\* C24 amended: the same, where the port bound is 8080 also when the
\* redirect URL gives port 0 (port = port or 8080).
C24_LoopbackOnlyPortOr8080 ==
    ListenerStarted =>
        /\ LoopbackHttp(flow.redirect)
        /\ server.host = Loopback
        /\ server.port = IF flow.redirect.port \in {None, PortZero} THEN DefaultPort
                         ELSE flow.redirect.port
\* A listener started for http://localhost:9090 is bound to 127.0.0.1:9090.
C24_Witness ==
    /\ server.bound /\ server.accepting
    /\ flow.redirect.host = "localhost" /\ flow.redirect.port = <<"9090">>
    /\ server.host = Loopback /\ server.port = <<"9090">>

\* C25: find_token_data on a handler through which nothing has been saved
\* yet returns None or the token data the handler was constructed for,
\* whatever other handler objects (also of the same path and user id)
\* saved before; find_token_data right after save_token_data(t) on the
\* same handler returns t.
C25_NewHandlerFindsOwnData ==
    (handlers # NoHandlers /\ handlers.last.op = "find") =>
        LET obj == handlers.objs[handlers.last.idx] IN
        /\ handlers.last.fresh => handlers.last.result \in {NoData, obj.ctx}
        /\ handlers.last.afterSave => handlers.last.result = obj.saved

StartsCall == call' = "aquire" /\ calls' = calls + 1
LooksUp == StartsCall \/ saves' = saves + 1

\* C27: when the cached record classifies Expired and a payload is posted,
\* it is exactly {refresh_token: the cached record's refresh_token,
\* grant_type: "refresh_token"}; the factory is not called in that step:
\* no listener is opened and nothing else is posted.
C27_ExpiredPostsRefreshOnly ==
    [][(LooksUp /\ tokenState' = "EXPIRED")
       => /\ pc' \in {"exchange", "raised"}
          /\ server' = (IF StartsCall THEN NoServer ELSE server)
          /\ pc' = "exchange" =>
               /\ sent' = Append(IF StartsCall THEN << >> ELSE sent,
                                 [refresh_token |-> found'["refresh_token"],
                                  grant_type |-> <<"refresh_token">>])
               /\ DOMAIN sent'[Len(sent')] = {"refresh_token", "grant_type"}]_vars
C27_Witness ==
    /\ tokenState = "EXPIRED"
    /\ pc = "exchange"
    /\ flow.type = "authorization_code"
    /\ Len(sent) = 1
    /\ sent[1]["grant_type"] = <<"refresh_token">>
    /\ sent[1]["refresh_token"] = found["refresh_token"]

\* C28: whenever the cached record classifies Expired the refresh payload
\* can be built: the record has a refresh_token and the step goes on to
\* the exchange instead of failing.
C28_ExpiredHasRefreshToken ==
    [][(LooksUp /\ tokenState' = "EXPIRED")
       => ("refresh_token" \in DOMAIN found' /\ pc' = "exchange")]_vars

\* C29: after a successful exchange the cache holds under the flow's key
\* exactly the record made from the new response (expires_at computed,
\* scope defaulted): the previous record is replaced whole, so a field the
\* new record lacks, such as refresh_token, is not carried over.
C29_StoredIsNewRecord ==
    [][saves' = saves + 1 => Holds(flow.backend, store', FlowKey, saved')]_vars

\* C30: every record the orchestrator persists has a scope field: the
\* scope of the token endpoint's answer when it has one, otherwise the
\* scope the orchestrator asks for.
C30_PersistedHasScope ==
    [][saves' = saves + 1
       => /\ "scope" \in DOMAIN saved'
          /\ saved'["scope"] = IF "scope" \in DOMAIN lastResp'.body
                               THEN lastResp'.body["scope"]
                               ELSE RequiredScope(flow)]_vars

\* The listener is started in this step.
ListenerOpens == pc' = "listening" /\ pc # "listening"
\* C31: within a get-access-token call the listener and the browser are
\* started only in the step that found the cached record Invalid, by a
\* flow that sends an authorization code and was given none: never when
\* the record classifies Valid or Expired, never with a pre-supplied code.
C31_ListenerOnlyWhenNeedsAuth ==
    [][(call' = "aquire" /\ ListenerOpens)
       => /\ tokenState' = "INVALID"
          /\ flow.type # "client_credentials"
          /\ ~Truthy(flow.code)
          /\ server'.browser]_vars
C31_Witness ==
    /\ call = "aquire" /\ pc = "listening"
    /\ tokenState = "INVALID"
    /\ flow.type = "authorization_code" /\ flow.code = None
    /\ server.browser /\ saves = 0

\* C32: every authorization_code payload posted to the token endpoint
\* carries a code; a call that was given no code and got none from the
\* listener step raises instead of posting.
C32_ExchangeCarriesCode ==
    \A i \in 1..Len(sent) :
        sent[i]["grant_type"] = <<"authorization_code">>
            => ("code" \in DOMAIN sent[i] /\ Truthy(sent[i]["code"]))

\* The validator has classified a record.
Classified == check # NoCheck /\ check.state # "none"
\* The classified record has a scope field that fails the scope check of
\* the flow's validator against the required scope.
ScopeMismatched ==
    /\ check.data # NoData
    /\ "scope" \in DOMAIN check.data
    /\ IF flow.variant = "ampyr"
       THEN LET data_scope == PyStr(check.data["scope"])
            IN ~scope_is_subset(IF Truthy(check.scope) THEN check.scope ELSE data_scope,
                                data_scope)
       ELSE ~spotipy_scope_is_subset(check.data["scope"],
                                     IF Truthy(check.scope) THEN check.scope
                                     ELSE check.data["scope"])
\* The classified record is past the expiry threshold.
PastThreshold ==
    /\ check.data # NoData
    /\ "expires_at" \in DOMAIN check.data
    /\ check.data["expires_at"] - now < EXPIRATION_THRESHOLD
\* C33: the checks are applied in the order absent record, missing scope
\* field, scope mismatch, expiry: an absent record, a record without a
\* scope field and a scope-mismatched record classify Invalid whatever
\* their expiry, so a mismatched record past the threshold is never
\* Expired.
C33_ScopeBeforeExpiry ==
    Classified =>
        /\ check.data = NoData => check.state = "INVALID"
        /\ (check.data # NoData /\ "scope" \notin DOMAIN check.data)
              => check.state = "INVALID"
        /\ ScopeMismatched => check.state = "INVALID"
C33_Witness ==
    /\ Classified
    /\ ScopeMismatched
    /\ PastThreshold
    /\ check.state = "INVALID"

\* The set of tokens of a scope string.
TokenSet(s) == {SeparatedTokens(s)[i] : i \in 1..Len(SeparatedTokens(s))}
\* The classified record's granted scope and the required scope are token
\* strings of which one strictly contains the other.
StrictlyContained ==
    /\ check.data # NoData
    /\ "scope" \in DOMAIN check.data
    /\ check.data["scope"] # None /\ check.scope # None
    /\ IsTokenString(check.data["scope"]) /\ IsTokenString(check.scope)
    /\ LET granted == TokenSet(check.data["scope"])
           required == TokenSet(check.scope)
       IN /\ granted # required
          /\ (required \subseteq granted \/ granted \subseteq required)
\* C34: a record whose granted tokens strictly include the required
\* tokens, and one whose granted tokens are a strict subset of the required
\* tokens, both pass the scope check: neither is classified Invalid.
C34_ContainmentEitherWay ==
    (Classified /\ StrictlyContained) => check.state # "INVALID"

\* A _normalize_payload probe has finished.
PayloadDone == probe # NoProbe /\ probe.op = "normalize_payload" /\ probe.done
C36_DistinctFlowsDistinctEntries ==
    (probe # NoProbe /\ probe.op = "cache_entry" /\ probe.done
     /\ (probe.a.type # probe.b.type \/ probe.a.client_id # probe.b.client_id))
    => probe.entry_a # probe.entry_b

\* C37: cache entries are independent per key: for the Memory, File and
\* Shelf managers, save(k2, r) leaves the result of find(k1) unchanged for
\* every key k1 other than k2, after any sequence of earlier saves.
C37_SaveLeavesOtherKeys ==
    [][\A k1 \in CacheKeys :
         (/\ cacheOp # NoCacheOp
          /\ cacheOp.backend \in {"Memory", "File", "Shelf"}
          /\ cacheOp'.op = "save" /\ cacheOp'.key # k1)
         => CacheFind(cacheOp.backend, cacheOp.layout, store', k1)
              = CacheFind(cacheOp.backend, cacheOp.layout, store, k1)]_vars

\* C38: in the spotipy flows a record persisted during one
\* get_access_token call is the record found at the start of the next
\* call on the same flow, for the memory, file and shelf handlers, so the
\* next call sends no exchange while the record is Valid.
C38_NextCallFindsPersisted ==
    [][(/\ flow.variant = "spotipy"
        /\ Idle /\ call = "aquire" /\ saves >= 1 /\ saved # NoData
        /\ Holds(flow.backend, store, FlowKey, saved)
        /\ StartsCall)
       => /\ found' = saved
          /\ (Validate(flow, saved, now') = "ISVALID" => sent' = << >>)]_vars

\* C39: in every interleaving of two get-access-token executions that
\* share a cache key, an execution that returns normally returns the
\* access_token of the record the cache held under the key at that
\* execution's last find, whichever execution wrote the record.
C39_ReturnsRecordOfLastFind ==
    race # NoRace =>
        \A t \in Threads :
            race.pc[t] = "returned" =>
                /\ race.held[t] # NoData
                /\ "access_token" \in DOMAIN race.held[t]
                /\ race.result[t] = race.held[t]["access_token"]

====
